---------------------------- MODULE Spec2Model ----------------------------
(***************************************************************************)
(* Baldr RTC (python): the control loop thread (rtc/loop.py), the command  *)
(* server thread (commander/server.py, commander/module.py) with its       *)
(* handlers (commander/commands.py), the command queue between them and    *)
(* the RuntimeGlobals object they share (core/state.py).                   *)
(*                                                                         *)
(* The two threads interleave at the granularity of their accesses to      *)
(* shared objects (the queue, the globals, the stop event).  Variables     *)
(* whose name starts with h_ are history variables: they record what       *)
(* happened and are never read by the program's actions.                   *)
(***************************************************************************)
EXTENDS Integers, Sequences, FiniteSets, TLC

(* ----------------------------- bounds ---------------------------------- *)
\* requests the client sends in the free-choice specification
MaxReq == 2
\* control cycles the loop may run before no further iteration is explored
MaxFrames == 2
\* length of the scripted command storm
MaxStorm == 105
\* commands queued at the start when _apply_command is given arbitrary dicts
MaxInject == 2
\* Capacity of the telemetry ring (--telem-capacity, 2000 by default).
telem_capacity == 3
\* Ticks of the clock in one loop period.
TicksPerPeriod == 3
\* Longest time one cycle's work takes, in ticks.
MaxWork == 7
\* The clock stops the timed loop at this time, in ticks.
MaxTime == 30
\* Largest controller dimension n.
MaxDim == 2
\* Longest vector handed to a controller's construction.
MaxVecLen == 3
\* process() calls made on one controller.
MaxCalls == 3
\* time.sleep(0.01) of a paused iteration, in ticks.
PauseSleep == 6

(* ------------------------- program constants --------------------------- *)
SERVO_OPEN == 0
SERVO_CLOSE == 1
SERVO_RUN == 0
SERVO_STOP == 2
\* for _ in range(100)
DrainLimit == 100

\* Python's None
None == [none |-> TRUE]

(* --------------------------- configuration ----------------------------- *)
\* Files the client can name.  "simple.toml" has no beam table (the simple
\* reader leaves the matrices empty), "legacy.toml" has one (I2M_LO / I2M_HO
\* come from the file); any other path does not exist.
ValidPaths == {"simple.toml", "legacy.toml"}

\* Mutant: every path names a readable configuration.
FileExistsAny(path) == TRUE

\* Path(config_path).expanduser().exists(): the empty path is Path("."), the
\* working directory, and exists.
FileExists(path) == path \in ValidPaths \cup {""}

\* p.read_text() of a directory raises IsADirectoryError.
IsDirectory(path) == path = ""

\* str(e) of what _load_toml raises for the path, "" if it raises nothing.
load_toml_error(path) ==
    IF ~FileExists(path) THEN "Config file not found"
    ELSE IF IsDirectory(path) THEN "[Errno 21] Is a directory"
    ELSE ""

\* readBDRConfig(path): a fresh BDRConfig.  src names the file the object was
\* parsed from (the identity of the load); neither reader sets cfg.fps, so it
\* keeps the dataclass default 0.
readBDRConfig(path) ==
    [src |-> path,
     fps |-> 0,
     len_I2M_LO |-> IF path = "legacy.toml" THEN 2 ELSE 0,
     len_I2M_HO |-> IF path = "legacy.toml" THEN 2 ELSE 0,
     controller_type |-> IF path = "legacy.toml" THEN "pid" ELSE "unknown",
     take_telemetry |-> FALSE]

\* build_rtc_model(cfg): the runtime model, built from one configuration.
\* processed counts, per band, the process() calls made on its controller
\* (each advances the controller's state); the controllers are built fresh.
build_rtc_model(cfg) ==
    [built_from |-> cfg.src,
     n_LO |-> cfg.len_I2M_LO,
     n_HO |-> cfg.len_I2M_HO,
     ctrl |-> IF cfg.controller_type = "leaky" THEN "leaky" ELSE "pid",
     processed |-> [LO |-> 0, HO |-> 0]]

(* ------------------------------ commands ------------------------------- *)
\* make_cmd(name, **payload)
make_cmd(name, payload) == [type |-> name] @@ payload

NoPayload == [x \in {} |-> None]

\* The command each queueing handler builds (commands.py 28-62).
HandlerCommand(name) ==
    CASE name = "pauseRTC" -> make_cmd("PAUSE", NoPayload)
      [] name = "resumeRTC" -> make_cmd("RESUME", NoPayload)
      [] name = "stop_baldr" -> make_cmd("STOP", NoPayload)
      [] name = "close_all" -> make_cmd("SET_LOHO", [lo |-> SERVO_CLOSE, ho |-> SERVO_CLOSE])
      [] name = "open_all" -> make_cmd("SET_LOHO", [lo |-> SERVO_OPEN, ho |-> SERVO_OPEN])
      [] name = "close_baldr_LO" -> make_cmd("SET_LO", [value |-> SERVO_CLOSE])
      [] name = "open_baldr_LO" -> make_cmd("SET_LO", [value |-> SERVO_OPEN])
      [] name = "close_baldr_HO" -> make_cmd("SET_HO", [value |-> SERVO_CLOSE])
      [] name = "open_baldr_HO" -> make_cmd("SET_HO", [value |-> SERVO_OPEN])

\* The result each queueing handler returns.
HandlerResult(name) ==
    IF name = "stop_baldr"
    THEN [ok |-> TRUE, servo_mode |-> SERVO_STOP]
    ELSE [ok |-> TRUE]

QueueingHandlers ==
    {"pauseRTC", "resumeRTC", "stop_baldr", "close_all", "open_all",
     "close_baldr_LO", "open_baldr_LO", "close_baldr_HO", "open_baldr_HO"}

\* m.def_command(...)
Registered == QueueingHandlers \cup {"readBDRConfig", "status"}

(* ------------------------------- queue --------------------------------- *)
\* queue.Queue: put appends, get_nowait takes the oldest item.
QueuePut(q, item) == Append(q, item)

\* Mutant: a LifoQueue.
QueuePopLifo(q) == [item |-> q[Len(q)], rest |-> SubSeq(q, 1, Len(q) - 1)]

\* Mutant: the item is read and left in the queue.
QueuePopPeek(q) == [item |-> Head(q), rest |-> q]

QueuePop(q) == [item |-> Head(q), rest |-> Tail(q)]

(* ----------------------------- requests -------------------------------- *)
Request(name, args) == [name |-> name, args |-> args]

\* What a client may send: every registered command, exit, a name that is not
\* registered, readBDRConfig with each path and with no argument.
Requests ==
    {Request(n, <<>>) : n \in QueueingHandlers \cup {"status", "exit", "bogus", "readBDRConfig"}}
    \cup {Request("readBDRConfig", <<p>>) : p \in ValidPaths}

\* The text of a message, as the sequence of its tokens: whitespace, a word
\* (text that is no JSON value) or a JSON string literal.
Ws == [k |-> "ws", v |-> " "]
Word(s) == [k |-> "word", v |-> s]
JStr(s) == [k |-> "jstr", v |-> s]

\* The text a client writes for a request.
Text(r) ==
    IF r.args = << >>
    THEN <<Word(r.name)>>
    ELSE <<Word(r.name), Ws, JStr(r.args[1])>>

\* Texts that are no well-formed request: the empty message, exit followed
\* by a word, a path without quotes; and exit between blanks.
MalformedTexts ==
    {<< >>,
     <<Word("exit"), Ws, Word("now")>>,
     <<Word("readBDRConfig"), Ws, Word("legacy.toml")>>}

Texts ==
    {Text(r) : r \in Requests}
    \cup MalformedTexts
    \cup {<<Ws, Word("exit"), Ws>>, Text(Request("readBDRConfig", <<"missing.toml">>))}

\* str.strip()
strip(t) ==
    LET keep == {i \in 1..Len(t) : t[i].k # "ws"}
    IN IF keep = {}
       THEN << >>
       ELSE SubSeq(t, CHOOSE i \in keep : \A j \in keep : i <= j,
                      CHOOSE i \in keep : \A j \in keep : i >= j)

\* Place of the first whitespace in t, 0 when there is none.
FirstWs(t) ==
    IF \E i \in 1..Len(t) : t[i].k = "ws"
    THEN CHOOSE i \in 1..Len(t) : t[i].k = "ws" /\ \A j \in 1..(i - 1) : t[j].k # "ws"
    ELSE 0

\* parse_message_to_command_and_args(message): the name and the arguments,
\* or bad when it raises (empty message, arguments that are no JSON).
parse_message_to_command_and_args(message) ==
    LET m == strip(message)
        i == FirstWs(m)
        rest == strip(SubSeq(m, i + 1, Len(m)))
    IN IF m = << >> THEN [bad |-> TRUE, name |-> "", args |-> << >>]
       ELSE IF i = 0 THEN [bad |-> FALSE, name |-> m[1].v, args |-> << >>]
       ELSE IF rest = << >> THEN [bad |-> FALSE, name |-> m[1].v, args |-> << >>]
       ELSE IF Len(rest) = 1 /\ rest[1].k = "jstr"
       THEN [bad |-> FALSE, name |-> m[1].v, args |-> <<rest[1].v>>]
       ELSE [bad |-> TRUE, name |-> "", args |-> << >>]

\* The scripted storm: a load, a status, an unknown name, a pause, then
\* requests that queue a command each, without pause, a stop_baldr behind
\* DrainLimit or more of them, and exit.
StormScript(k) ==
    CASE k = 1 -> Request("readBDRConfig", <<"legacy.toml">>)
      [] k = 2 -> Request("status", <<>>)
      [] k = 3 -> Request("bogus", <<>>)
      [] k = 4 -> Request("pauseRTC", <<>>)
      [] k = MaxStorm - 1 -> Request("stop_baldr", <<>>)
      [] k = MaxStorm -> Request("exit", <<>>)
      [] OTHER -> IF k % 2 = 0 THEN Request("close_baldr_LO", <<>>)
                               ELSE Request("open_baldr_LO", <<>>)

\* The texts of the storm; the fifth is a path without quotes.
StormText(k) ==
    IF k = 5
    THEN <<Word("readBDRConfig"), Ws, Word("legacy.toml")>>
    ELSE Text(StormScript(k))

(* ------------------------------- state --------------------------------- *)
\* No controller constructed yet, no array returned yet, nothing done yet.
NoCtrl == [kind |-> "none"]
NoArray == [val |-> << >>, is_state |-> FALSE]
NoCtrlHistory ==
    [args |-> [via |-> "none"], ops |-> 0, calls |-> 0, e |-> << >>, same_e |-> TRUE,
     first |-> NoArray]

VARIABLES
    g,              \* RuntimeGlobals (the fields the threads share)
    command_queue,  \* queue.Queue of command dicts
    stop_event,     \* threading.Event
    pc_loop,        \* RTCThread.run: where the loop thread is
    drain_i,        \* _drain_commands: iterations of `for _ in range(100)` done
    pend,           \* _apply_command: the command whose second write is due
    frame_id,       \* RTCThread._frame_id
    telem_ring,     \* samples handed to telem_ring.push so far, oldest first
    ring,           \* TelemetryRingBuffer: the samples it holds, oldest first
    dm_cmd,         \* bands whose controller output is in the last command written to the DM
    now,            \* time.perf_counter(), in ticks
    next_t,         \* run()'s next_t, in ticks
    cursor,         \* the telemetry drain's cursor: samples pushed when it last drained
    ctrl,           \* a controller object (PIDController or LeakyIntegrator), NoCtrl before construction
    ret,            \* the array process() returned last: its value, and whether it is the state array
    h_ctrl,         \* history of the controller: construction arguments, calls, errors fed, first output
    pc_main,        \* main(): where the main thread is, once the three threads are started
    io_closed,      \* the IO collaborators main() has closed
    pc_srv,         \* CommanderServer.run: where the server thread is
    msg,            \* the request being served
    out,            \* Module.execute's result for it
    cfg_local,      \* read_bdr's local cfg
    reply,          \* the last reply sent, with the request it answers
    n_req,          \* requests received so far
    storm,          \* the client plays StormScript (TRUE) or chooses freely
    h_enq,          \* history: commands enqueued so far
    h_napplied,     \* history: commands applied so far
    h_in_order,     \* history: the k-th command applied was the k-th enqueued, for every k so far
    h_stop_iter,    \* history: a STOP was applied in the current iteration
    h_stop_pos,     \* history: place of the first STOP in the queue when the current drain began
    h_load_iter,    \* history: path of the last LOAD_CONFIG applied in the current iteration, "" if none
    h_want,         \* history: LO/HO mode asked for by the SET_* commands applied so far
    h_nreply,       \* history: replies sent so far
    h_last2,        \* history: types of the last two commands applied, oldest first
    h_ack_lo,       \* history: LO mode asked for by the last acknowledged request that sets it, -1 if none
    h_overran,      \* history: the cycle before this one ended after its deadline
    h_paused        \* history: ticks the loop has slept in paused iterations so far

loop_vars == <<pc_loop, drain_i, pend, frame_id, telem_ring, ring, dm_cmd>>
clock_vars == <<now, next_t, h_overran, h_paused>>
ctrl_vars == <<ctrl, ret, h_ctrl>>
main_vars == <<pc_main, io_closed>>
env_vars == <<storm, clock_vars, cursor, ctrl_vars, main_vars>>
srv_vars == <<pc_srv, msg, out, cfg_local, reply, n_req>>
hist_vars == <<h_enq, h_napplied, h_in_order, h_stop_iter, h_stop_pos, h_load_iter, h_want,
              h_nreply, h_last2, h_ack_lo>>
vars == <<g, command_queue, stop_event, loop_vars, srv_vars, env_vars, hist_vars>>

\* What make_io returns for the camera and for the DM: a handle.
IOHandle == [io |-> TRUE]

\* RuntimeGlobals as main() constructs it from the start-up configuration,
\* with the handles of make_io wired in.
RuntimeGlobals(config_path) ==
    [active_config_filename |-> config_path,
     camera_io |-> IOHandle,
     dm_io |-> IOHandle,
     servo_mode |-> SERVO_RUN,
     servo_mode_LO |-> SERVO_OPEN,
     servo_mode_HO |-> SERVO_OPEN,
     pause_rtc |-> FALSE,
     rtc_config |-> readBDRConfig(config_path),
     model |-> build_rtc_model(readBDRConfig(config_path))]

InitCommon ==
    /\ command_queue = <<>>
    /\ stop_event = FALSE
    /\ pc_loop = "top"
    /\ drain_i = 0
    /\ pend = None
    /\ frame_id = 0
    /\ telem_ring = <<>>
    /\ ring = <<>>
    /\ dm_cmd = {}
    /\ now = 0
    /\ next_t = 0
    /\ cursor = 0
    /\ ctrl = NoCtrl
    /\ ret = NoArray
    /\ h_ctrl = NoCtrlHistory
    /\ pc_main = "wait"
    /\ io_closed = {}
    /\ h_overran = FALSE
    /\ h_paused = 0
    /\ h_ack_lo = -1
    /\ pc_srv = "top"
    /\ msg = None
    /\ out = None
    /\ cfg_local = None
    /\ reply = None
    /\ n_req = 0
    /\ h_enq = 0
    /\ h_napplied = 0
    /\ h_in_order = TRUE
    /\ h_stop_iter = FALSE
    /\ h_stop_pos = 0
    /\ h_load_iter = ""
    /\ h_want = [lo |-> SERVO_OPEN, ho |-> SERVO_OPEN]
    /\ h_nreply = 0
    /\ h_last2 = <<"", "">>

Init ==
    /\ InitCommon
    /\ storm = FALSE
    /\ \E p \in ValidPaths : g = RuntimeGlobals(p)

StormInit ==
    /\ InitCommon
    /\ storm = TRUE
    /\ g = RuntimeGlobals("simple.toml")

\* Command dicts handed to _apply_command directly: those the handlers
\* build, and dicts no handler builds (a type that is not known, no type at
\* all, SET_TELEM, a LOAD_CONFIG without configuration).
InjectCommands ==
    {HandlerCommand(n) : n \in QueueingHandlers}
    \cup {make_cmd("LOAD_CONFIG", [rtc_config |-> readBDRConfig(p), path |-> p]) : p \in ValidPaths}
    \cup {make_cmd("LOAD_CONFIG", [rtc_config |-> None, path |-> "legacy.toml"]),
          make_cmd("SET_TELEM", [enabled |-> TRUE]),
          make_cmd("SET_TELEM", NoPayload),
          make_cmd("FOO", NoPayload),
          [value |-> SERVO_CLOSE]}

\* Module.execute called directly: every registered name and one that is
\* not, with a list, with None and with a value that is no list.
DirectCalls ==
    {[raw |-> << >>, text |-> << >>, bad |-> FALSE, name |-> n, args |-> a, args_kind |-> "list"] :
        n \in Registered \cup {"bogus"}, a \in {<< >>, <<"legacy.toml">>, <<"missing.toml">>}}
    \cup {[raw |-> << >>, text |-> << >>, bad |-> FALSE, name |-> n, args |-> << >>, args_kind |-> k] :
        n \in Registered \cup {"bogus"}, k \in {"none", "other"}}

\* The server is about to call execute for one of them.
ExecInit ==
    /\ \E p \in ValidPaths : g = RuntimeGlobals(p)
    /\ \E m \in DirectCalls : msg = m
    /\ pc_srv = "exec"
    /\ n_req = 1
    /\ command_queue = <<>>
    /\ stop_event = FALSE
    /\ pc_loop = "top"
    /\ drain_i = 0
    /\ pend = None
    /\ frame_id = 0
    /\ telem_ring = <<>>
    /\ ring = <<>>
    /\ dm_cmd = {}
    /\ now = 0
    /\ next_t = 0
    /\ cursor = 0
    /\ ctrl = NoCtrl
    /\ ret = NoArray
    /\ h_ctrl = NoCtrlHistory
    /\ pc_main = "wait"
    /\ io_closed = {}
    /\ out = None
    /\ cfg_local = None
    /\ reply = None
    /\ storm = FALSE
    /\ h_enq = 0
    /\ h_napplied = 0
    /\ h_in_order = TRUE
    /\ h_stop_iter = FALSE
    /\ h_stop_pos = 0
    /\ h_load_iter = ""
    /\ h_want = [lo |-> SERVO_OPEN, ho |-> SERVO_OPEN]
    /\ h_nreply = 0
    /\ h_last2 = <<"", "">>
    /\ h_ack_lo = -1
    /\ h_overran = FALSE
    /\ h_paused = 0

\* The loop starts with MaxInject or fewer of them queued, and no server.
ApplyInit ==
    /\ \E n \in 1..MaxInject : \E q \in [1..n -> InjectCommands] :
          /\ command_queue = [k \in 1..n |-> q[k] @@ [seq |-> k]]
          /\ h_enq = n
    /\ \E p \in ValidPaths : g = RuntimeGlobals(p)
    /\ stop_event = FALSE
    /\ pc_loop = "top"
    /\ drain_i = 0
    /\ pend = None
    /\ frame_id = 0
    /\ telem_ring = <<>>
    /\ ring = <<>>
    /\ dm_cmd = {}
    /\ now = 0
    /\ next_t = 0
    /\ cursor = 0
    /\ ctrl = NoCtrl
    /\ ret = NoArray
    /\ h_ctrl = NoCtrlHistory
    /\ pc_main = "wait"
    /\ io_closed = {}
    /\ h_overran = FALSE
    /\ h_paused = 0
    /\ h_ack_lo = -1
    /\ pc_srv = "top"
    /\ msg = None
    /\ out = None
    /\ cfg_local = None
    /\ reply = None
    /\ n_req = 0
    /\ storm = FALSE
    /\ h_napplied = 0
    /\ h_in_order = TRUE
    /\ h_stop_iter = FALSE
    /\ h_stop_pos = 0
    /\ h_load_iter = ""
    /\ h_want = [lo |-> SERVO_OPEN, ho |-> SERVO_OPEN]
    /\ h_nreply = 0
    /\ h_last2 = <<"", "">>

(* --------------------------- _apply_command ---------------------------- *)
\* The attribute writes _apply_command(cmd) makes on the globals gl, in
\* program order, each as <<attribute, value>>.  An unknown type, and a
\* LOAD_CONFIG without rtc_config, write nothing.
WritesOf(gl, cmd, t) ==
    CASE t = "PAUSE" -> << <<"pause_rtc", TRUE>> >>
      [] t = "RESUME" -> << <<"pause_rtc", FALSE>> >>
      [] t = "STOP" -> << <<"servo_mode", SERVO_STOP>> >>
      [] t = "SET_LO" -> << <<"servo_mode_LO", cmd.value>> >>
      [] t = "SET_HO" -> << <<"servo_mode_HO", cmd.value>> >>
      [] t = "SET_LOHO" -> << <<"servo_mode_LO", cmd.lo>>, <<"servo_mode_HO", cmd.ho>> >>
      [] t = "SET_TELEM" ->
            << <<"rtc_config",
                 [gl.rtc_config EXCEPT !.take_telemetry =
                    IF "enabled" \in DOMAIN cmd THEN cmd.enabled ELSE FALSE]>> >>
      [] t = "LOAD_CONFIG" ->
            IF "rtc_config" \in DOMAIN cmd /\ cmd.rtc_config # None
            THEN << <<"rtc_config", cmd.rtc_config>>,
                    <<"active_config_filename",
                      IF "path" \in DOMAIN cmd THEN cmd.path ELSE gl.active_config_filename>> >>
            ELSE << >>
      [] OTHER -> << >>

\* t = cmd.get("type", "")
TypeOf(cmd) == IF "type" \in DOMAIN cmd THEN cmd.type ELSE ""

\* Mutant: the SET_HO branch writes the LO attribute.
WritesHoToLo(gl, cmd) ==
    WritesOf(gl, cmd, IF TypeOf(cmd) = "SET_HO" THEN "SET_LO" ELSE TypeOf(cmd))

\* Mutant: RESUME also puts the servo back to SERVO_RUN.
WritesResumeRestarts(gl, cmd) ==
    IF TypeOf(cmd) = "RESUME"
    THEN << <<"servo_mode", SERVO_RUN>> >>
    ELSE WritesOf(gl, cmd, TypeOf(cmd))

\* Mutant: PAUSE flips the flag.
WritesPauseToggles(gl, cmd) ==
    IF TypeOf(cmd) = "PAUSE"
    THEN << <<"pause_rtc", ~gl.pause_rtc>> >>
    ELSE WritesOf(gl, cmd, TypeOf(cmd))

\* Mutant: PAUSE is carried out as a STOP.
WritesPauseStops(gl, cmd) ==
    WritesOf(gl, cmd, IF TypeOf(cmd) = "PAUSE" THEN "STOP" ELSE TypeOf(cmd))

\* Mutant: the SET_LO branch writes the HO attribute.
WritesLoToHo(gl, cmd) ==
    WritesOf(gl, cmd, IF TypeOf(cmd) = "SET_LO" THEN "SET_HO" ELSE TypeOf(cmd))

KnownTypes ==
    {"PAUSE", "RESUME", "STOP", "SET_LO", "SET_HO", "SET_LOHO", "SET_TELEM", "LOAD_CONFIG"}

\* Mutant: a type that is not known stops the servo.
WritesUnknownStops(gl, cmd) ==
    WritesOf(gl, cmd, IF TypeOf(cmd) \in KnownTypes THEN TypeOf(cmd) ELSE "STOP")

Writes(gl, cmd) == WritesOf(gl, cmd, TypeOf(cmd))

\* One attribute write.
SetAttr(gl, w) == [gl EXCEPT ![w[1]] = w[2]]

\* _apply_command(cmd) as a whole: the globals after all its writes.
apply_command(gl, cmd) ==
    LET ws == Writes(gl, cmd)
    IN IF Len(ws) = 0 THEN gl
       ELSE IF Len(ws) = 1 THEN SetAttr(gl, ws[1])
       ELSE SetAttr(SetAttr(gl, ws[1]), ws[2])

\* Mutant: while True instead of for _ in range(100).
DrainMoreUnbounded(i, q) == q # << >>

\* Mutant: the drain returns after its first command.
DrainMoreOne(i, q) == i < 1 /\ q # << >>

\* Mutant: the drain returns once servo_mode is STOPPED.
DrainMoreUntilStop(i, q) == i < DrainLimit /\ q # << >> /\ g.servo_mode # SERVO_STOP

\* for _ in range(100): get_nowait() ... except queue.Empty: return
DrainMore(i, q) == i < DrainLimit /\ q # << >>

(* --------------------------- history helpers --------------------------- *)
\* The LO/HO modes asked for once cmd has been applied after w.
WantAfter(w, cmd) ==
    CASE TypeOf(cmd) = "SET_LO" -> [w EXCEPT !.lo = cmd.value]
      [] TypeOf(cmd) = "SET_HO" -> [w EXCEPT !.ho = cmd.value]
      [] TypeOf(cmd) = "SET_LOHO" -> [lo |-> cmd.lo, ho |-> cmd.ho]
      [] OTHER -> w

\* Place of the first STOP in q, 0 when there is none.
FirstStop(q) ==
    IF \E k \in 1..Len(q) : TypeOf(q[k]) = "STOP"
    THEN CHOOSE k \in 1..Len(q) :
            /\ TypeOf(q[k]) = "STOP"
            /\ \A j \in 1..(k - 1) : TypeOf(q[j]) # "STOP"
    ELSE 0

(* ------------------------- RTCThread.run ------------------------------- *)
\* Mutant: the iteration goes to its pause test first, without a drain.
LoopTopSkipsDrain ==
    /\ pc_loop = "top"
    /\ IF stop_event
       THEN /\ pc_loop' = "done"
            /\ UNCHANGED <<stop_event, drain_i, h_stop_iter, h_stop_pos, h_load_iter>>
       ELSE IF g.servo_mode = SERVO_STOP
       THEN /\ stop_event' = TRUE
            /\ pc_loop' = "done"
            /\ UNCHANGED <<drain_i, h_stop_iter, h_stop_pos, h_load_iter>>
       ELSE /\ frame_id < MaxFrames
            /\ pc_loop' = "pause_check"
            /\ drain_i' = 0
            /\ h_stop_iter' = FALSE
            /\ h_stop_pos' = FirstStop(command_queue)
            /\ h_load_iter' = ""
            /\ UNCHANGED stop_event
    /\ UNCHANGED <<g, command_queue, pend, frame_id, telem_ring, ring, dm_cmd, srv_vars, env_vars,
                   h_enq, h_napplied, h_in_order, h_want, h_ack_lo, h_nreply, h_last2>>

\* Mutant: the loop head does not look at servo_mode.
LoopTopNoServoCheck ==
    /\ pc_loop = "top"
    /\ IF stop_event
       THEN /\ pc_loop' = "done"
            /\ UNCHANGED <<drain_i, h_stop_iter, h_stop_pos, h_load_iter>>
       ELSE /\ frame_id < MaxFrames
            /\ pc_loop' = "drain"
            /\ drain_i' = 0
            /\ h_stop_iter' = FALSE
            /\ h_stop_pos' = FirstStop(command_queue)
            /\ h_load_iter' = ""
    /\ UNCHANGED <<g, command_queue, stop_event, pend, frame_id, telem_ring, ring, dm_cmd, srv_vars, env_vars,
                   h_enq, h_napplied, h_in_order, h_want, h_ack_lo, h_nreply, h_last2>>

\* Mutant: a paused loop goes straight to its pause test, without a drain.
LoopTopSkipsDrainWhenPaused ==
    /\ pc_loop = "top"
    /\ IF stop_event
       THEN /\ pc_loop' = "done"
            /\ UNCHANGED <<stop_event, drain_i, h_stop_iter, h_stop_pos, h_load_iter>>
       ELSE IF g.servo_mode = SERVO_STOP
       THEN /\ stop_event' = TRUE
            /\ pc_loop' = "done"
            /\ UNCHANGED <<drain_i, h_stop_iter, h_stop_pos, h_load_iter>>
       ELSE /\ frame_id < MaxFrames
            /\ pc_loop' = IF g.pause_rtc THEN "pause_check" ELSE "drain"
            /\ drain_i' = 0
            /\ h_stop_iter' = FALSE
            /\ h_stop_pos' = FirstStop(command_queue)
            /\ h_load_iter' = ""
            /\ UNCHANGED stop_event
    /\ UNCHANGED <<g, command_queue, pend, frame_id, telem_ring, ring, dm_cmd, srv_vars, env_vars,
                   h_enq, h_napplied, h_in_order, h_want, h_ack_lo, h_nreply, h_last2>>

\* Mutant: the loop breaks on SERVO_STOP without setting the stop event.
LoopTopBreaksSilently ==
    /\ pc_loop = "top"
    /\ IF stop_event \/ g.servo_mode = SERVO_STOP
       THEN /\ pc_loop' = "done"
            /\ UNCHANGED <<drain_i, h_stop_iter, h_stop_pos, h_load_iter>>
       ELSE /\ frame_id < MaxFrames
            /\ pc_loop' = "drain"
            /\ drain_i' = 0
            /\ h_stop_iter' = FALSE
            /\ h_stop_pos' = FirstStop(command_queue)
            /\ h_load_iter' = ""
    /\ UNCHANGED <<g, command_queue, stop_event, pend, frame_id, telem_ring, ring, dm_cmd, srv_vars, env_vars,
                   h_enq, h_napplied, h_in_order, h_want, h_ack_lo, h_nreply, h_last2>>

\* while not stop_event.is_set(): if servo_mode == SERVO_STOP: set; break
LoopTop ==
    /\ pc_loop = "top"
    /\ IF stop_event
       THEN /\ pc_loop' = "done"
            /\ UNCHANGED <<stop_event, drain_i, h_stop_iter, h_stop_pos, h_load_iter>>
       ELSE IF g.servo_mode = SERVO_STOP
       THEN /\ stop_event' = TRUE
            /\ pc_loop' = "done"
            /\ UNCHANGED <<drain_i, h_stop_iter, h_stop_pos, h_load_iter>>
       ELSE /\ frame_id < MaxFrames
            /\ pc_loop' = "drain"
            /\ drain_i' = 0
            /\ h_stop_iter' = FALSE
            /\ h_stop_pos' = FirstStop(command_queue)
            /\ h_load_iter' = ""
            /\ UNCHANGED stop_event
    /\ UNCHANGED <<g, command_queue, pend, frame_id, telem_ring, ring, dm_cmd, srv_vars, env_vars,
                   h_enq, h_napplied, h_in_order, h_want, h_ack_lo, h_nreply, h_last2>>

\* _drain_commands, one iteration that finds a command: get_nowait, the first
\* write of _apply_command, and task_done unless a second write is due.
LoopDrainGet ==
    /\ pc_loop = "drain"
    /\ DrainMore(drain_i, command_queue)
    /\ LET got == QueuePop(command_queue)
           cmd == got.item
           ws == Writes(g, cmd)
       IN /\ command_queue' = got.rest
          /\ g' = IF Len(ws) > 0 THEN SetAttr(g, ws[1]) ELSE g
          /\ drain_i' = drain_i + 1
          /\ pend' = IF Len(ws) > 1 THEN cmd ELSE None
          /\ pc_loop' = IF Len(ws) > 1 THEN "apply2" ELSE "drain"
          /\ h_napplied' = h_napplied + 1
          /\ h_in_order' = (h_in_order /\ cmd.seq = h_napplied + 1)
          /\ h_stop_iter' = (h_stop_iter \/ TypeOf(cmd) = "STOP")
          /\ h_want' = WantAfter(h_want, cmd)
          /\ h_load_iter' = IF TypeOf(cmd) = "LOAD_CONFIG" THEN cmd.path ELSE h_load_iter
          /\ h_last2' = <<h_last2[2], TypeOf(cmd)>>
    /\ UNCHANGED <<stop_event, frame_id, telem_ring, ring, dm_cmd, srv_vars, env_vars, h_enq,
                   h_stop_pos, h_nreply, h_ack_lo>>

\* _apply_command, the second write of SET_LOHO and LOAD_CONFIG.
LoopApplySecond ==
    /\ pc_loop = "apply2"
    /\ g' = SetAttr(g, Writes(g, pend)[2])
    /\ pend' = None
    /\ pc_loop' = "drain"
    /\ UNCHANGED <<command_queue, stop_event, drain_i, frame_id, telem_ring, ring, dm_cmd, srv_vars,
                   env_vars, hist_vars>>

\* _drain_commands returns: the queue is empty or 100 iterations are done.
LoopDrainReturn ==
    /\ pc_loop = "drain"
    /\ ~DrainMore(drain_i, command_queue)
    /\ pc_loop' = "pause_check"
    /\ drain_i' = 0
    /\ UNCHANGED <<g, command_queue, stop_event, pend, frame_id, telem_ring, ring, dm_cmd,
                   srv_vars, env_vars, hist_vars>>

\* Mutant: the pause flag is not looked at.
LoopPauseCheckRunsCycle ==
    /\ pc_loop = "pause_check"
    /\ frame_id' = frame_id + 1
    /\ pc_loop' = "cam"
    /\ UNCHANGED <<g, command_queue, stop_event, drain_i, pend, telem_ring, ring, dm_cmd, srv_vars,
                   env_vars, hist_vars>>

\* Mutant: a paused iteration takes a frame id too.
LoopPauseCheckCountsPaused ==
    /\ pc_loop = "pause_check"
    /\ frame_id' = frame_id + 1
    /\ pc_loop' = IF g.pause_rtc THEN "top" ELSE "cam"
    /\ UNCHANGED <<g, command_queue, stop_event, drain_i, pend, telem_ring, ring, dm_cmd, srv_vars,
                   env_vars, hist_vars>>

\* if self.g.pause_rtc: sleep(0.01); continue -- else self._frame_id += 1
LoopPauseCheck ==
    /\ pc_loop = "pause_check"
    /\ IF g.pause_rtc
       THEN /\ pc_loop' = "top"
            /\ UNCHANGED frame_id
       ELSE /\ frame_id' = frame_id + 1
            /\ pc_loop' = "cam"
    /\ UNCHANGED <<g, command_queue, stop_event, drain_i, pend, telem_ring, ring, dm_cmd, srv_vars,
                   env_vars, hist_vars>>

\* if self.g.camera_io is None: i_raw = zeros  else: fr = get_frame(); i_raw = fr.data
\* (get_frame returns a frame)
LoopCamRead ==
    /\ pc_loop = "cam"
    /\ pc_loop' = "dm"
    /\ UNCHANGED <<g, command_queue, stop_event, drain_i, pend, frame_id, telem_ring, ring,
                   dm_cmd, srv_vars, env_vars, hist_vars>>

\* get_frame raises (a receive that times out, a broken connection): nothing
\* in run() catches it and the thread ends.
LoopCamReadRaises ==
    /\ pc_loop = "cam"
    /\ g.camera_io # None
    /\ pc_loop' = "raised"
    /\ UNCHANGED <<g, command_queue, stop_event, drain_i, pend, frame_id, telem_ring, ring,
                   dm_cmd, srv_vars, env_vars, hist_vars>>

\* np.zeros(140): the command run() writes has no band's controller output
\* in it (the signal path that calls ctrl_LO.process and ctrl_HO.process is
\* inside a string literal and is not executed).
ZeroCommand == {}

\* if self.g.dm_io is not None: self.g.dm_io.write(np.zeros(140))
LoopDMWrite ==
    /\ pc_loop = "dm"
    /\ dm_cmd' = IF g.dm_io # None THEN ZeroCommand ELSE dm_cmd
    /\ pc_loop' = "telem"
    /\ UNCHANGED <<g, command_queue, stop_event, drain_i, pend, frame_id, telem_ring, ring,
                   srv_vars, env_vars, hist_vars>>

\* write raises: nothing in run() catches it and the thread ends.
LoopDMWriteRaises ==
    /\ pc_loop = "dm"
    /\ g.dm_io # None
    /\ pc_loop' = "raised"
    /\ UNCHANGED <<g, command_queue, stop_event, drain_i, pend, frame_id, telem_ring, ring,
                   dm_cmd, srv_vars, env_vars, hist_vars>>

\* The sample run() hands to telem_ring.push.
Sample(gl, fid) ==
    [frame_id |-> fid,
     lo_state |-> gl.servo_mode_LO,
     ho_state |-> gl.servo_mode_HO,
     paused |-> gl.pause_rtc]

\* TelemetryRingBuffer.push: the newest sample takes the place of the oldest
\* once capacity samples are held.
push(r, capacity, sample) ==
    IF Len(r) < capacity THEN Append(r, sample) ELSE Append(Tail(r), sample)

\* self.telem_ring.push(...), then the sleep to the next deadline.
LoopTelemPush ==
    /\ pc_loop = "telem"
    /\ telem_ring' = Append(telem_ring, Sample(g, frame_id))
    /\ ring' = push(ring, telem_capacity, Sample(g, frame_id))
    /\ pc_loop' = "top"
    /\ UNCHANGED <<g, command_queue, stop_event, drain_i, pend, frame_id, dm_cmd, srv_vars,
                   env_vars, hist_vars>>

LoopNext ==
    \/ LoopTop
    \/ LoopDrainGet
    \/ LoopApplySecond
    \/ LoopDrainReturn
    \/ LoopPauseCheck
    \/ LoopCamRead
    \/ LoopDMWrite
    \/ LoopTelemPush

(* ----------------------- CommanderServer.run --------------------------- *)
NextRequests ==
    IF storm
    THEN IF n_req < MaxStorm THEN {StormText(n_req + 1)} ELSE {}
    ELSE IF n_req < MaxReq THEN Texts ELSE {}

\* Mutant: while True.
ServerTopNoStopCheck ==
    /\ pc_srv = "top"
    /\ pc_srv' = "poll"
    /\ UNCHANGED <<g, command_queue, stop_event, loop_vars, msg, out, cfg_local, reply,
                   n_req, env_vars, hist_vars>>

\* while not self.stop_event.is_set()
ServerTop ==
    /\ pc_srv = "top"
    /\ pc_srv' = IF stop_event THEN "done" ELSE "poll"
    /\ UNCHANGED <<g, command_queue, stop_event, loop_vars, msg, out, cfg_local, reply,
                   n_req, env_vars, hist_vars>>

\* sock.poll(timeout=100) == 0: continue
ServerPollTimeout ==
    /\ pc_srv = "poll"
    /\ pc_srv' = "top"
    /\ UNCHANGED <<g, command_queue, stop_event, loop_vars, msg, out, cfg_local, reply,
                   n_req, env_vars, hist_vars>>

\* The message once received: its stripped text and what the parser makes
\* of it (the parser is not called for exit).  args_kind is what execute is
\* given for args: "list" (the parser returns nothing else), "none" or
\* "other" (a value that is no list).
Received(raw) ==
    [raw |-> raw, text |-> strip(raw), args_kind |-> "list"]
        @@ parse_message_to_command_and_args(raw)

ExitText == <<Word("exit")>>

\* msg = sock.recv_string().strip(); if msg == "exit" ... else parse
ServerRecv ==
    /\ pc_srv = "poll"
    /\ \E raw \in NextRequests :
          /\ msg' = Received(raw)
          /\ pc_srv' = IF strip(raw) = ExitText THEN "exit_ack" ELSE "exec"
    /\ n_req' = n_req + 1
    /\ UNCHANGED <<g, command_queue, stop_event, loop_vars, out, cfg_local, reply,
                   env_vars, hist_vars>>

\* Mutant: the stop event is set first and no acknowledgement is sent.
ServerExitSetsBeforeAck ==
    /\ pc_srv = "exit_ack"
    /\ stop_event' = TRUE
    /\ pc_srv' = "exit_set"
    /\ UNCHANGED <<g, command_queue, loop_vars, msg, out, cfg_local, reply,
                   n_req, env_vars, hist_vars>>

\* if msg == "exit": sock.send_string("Exiting!")
ServerExitAck ==
    /\ pc_srv = "exit_ack"
    /\ reply' = [to |-> "exit", body |-> "Exiting!"]
    /\ h_nreply' = h_nreply + 1
    /\ pc_srv' = "exit_set"
    /\ UNCHANGED <<g, command_queue, stop_event, loop_vars, msg, out, cfg_local,
                   n_req, env_vars, h_enq, h_napplied, h_in_order, h_stop_iter, h_stop_pos,
                   h_load_iter, h_want, h_ack_lo, h_last2>>

\* self.stop_event.set(); break
ServerExitSet ==
    /\ pc_srv = "exit_set"
    /\ stop_event' = TRUE
    /\ pc_srv' = "done"
    /\ UNCHANGED <<g, command_queue, loop_vars, msg, out, cfg_local, reply,
                   n_req, env_vars, hist_vars>>

\* Mutant: the exception leaves the request unanswered.
ServerParseFailedNoReply ==
    /\ pc_srv = "exec"
    /\ msg.bad
    /\ msg' = None
    /\ pc_srv' = "top"
    /\ UNCHANGED <<g, command_queue, stop_event, loop_vars, out, cfg_local, reply,
                   n_req, env_vars, hist_vars>>

\* parse_message_to_command_and_args raised: except Exception as e
ServerParseFailed ==
    /\ pc_srv = "exec"
    /\ msg.bad
    /\ out' = [error |-> "parse"]
    /\ pc_srv' = "send"
    /\ UNCHANGED <<g, command_queue, stop_event, loop_vars, msg, cfg_local, reply,
                   n_req, env_vars, hist_vars>>

\* Module.execute: if name not in self._fns
ServerExecNotFound ==
    /\ pc_srv = "exec"
    /\ ~msg.bad
    /\ msg.name \notin Registered
    /\ out' = [error |-> "Command not found."]
    /\ pc_srv' = "send"
    /\ UNCHANGED <<g, command_queue, stop_event, loop_vars, msg, cfg_local, reply,
                   n_req, env_vars, hist_vars>>

\* Mutant: the handler is called with whatever args is.
ServerExecNotListRunsHandler ==
    /\ pc_srv = "exec"
    /\ ~msg.bad
    /\ msg.name \in Registered
    /\ msg.args_kind = "other"
    /\ command_queue' = QueuePut(command_queue, make_cmd("PAUSE", NoPayload) @@ [seq |-> h_enq + 1])
    /\ h_enq' = h_enq + 1
    /\ out' = [ok |-> TRUE]
    /\ pc_srv' = "send"
    /\ UNCHANGED <<g, stop_event, loop_vars, msg, cfg_local, reply, n_req, env_vars,
                   h_napplied, h_in_order, h_stop_iter, h_stop_pos, h_load_iter, h_want,
                   h_ack_lo, h_nreply, h_last2>>

\* Module.execute: if not isinstance(args, list)  (args None has become [])
ServerExecNotList ==
    /\ pc_srv = "exec"
    /\ ~msg.bad
    /\ msg.name \in Registered
    /\ msg.args_kind = "other"
    /\ out' = [error |-> "Arguments must be a JSON array."]
    /\ pc_srv' = "send"
    /\ UNCHANGED <<g, command_queue, stop_event, loop_vars, msg, cfg_local, reply,
                   n_req, env_vars, hist_vars>>

\* Mutant: the pauseRTC handler sets the paused flag itself as well.
ServerExecPauseWritesFlag ==
    /\ pc_srv = "exec"
    /\ msg.name \in QueueingHandlers
    /\ msg.args_kind # "other"
    /\ command_queue' = QueuePut(command_queue, HandlerCommand(msg.name) @@ [seq |-> h_enq + 1])
    /\ g' = IF msg.name = "pauseRTC" THEN [g EXCEPT !.pause_rtc = TRUE] ELSE g
    /\ h_enq' = h_enq + 1
    /\ out' = HandlerResult(msg.name)
    /\ pc_srv' = "send"
    /\ UNCHANGED <<stop_event, loop_vars, msg, cfg_local, reply, n_req, env_vars,
                   h_napplied, h_in_order, h_stop_iter, h_stop_pos, h_load_iter, h_want, h_ack_lo,
                   h_nreply, h_last2>>

\* pause_rtc, resume_rtc, stop_baldr, close_all, ..., open_ho: put and return
ServerExecQueueing ==
    /\ pc_srv = "exec"
    /\ msg.name \in QueueingHandlers
    /\ msg.args_kind # "other"
    /\ command_queue' = QueuePut(command_queue, HandlerCommand(msg.name) @@ [seq |-> h_enq + 1])
    /\ h_enq' = h_enq + 1
    /\ out' = HandlerResult(msg.name)
    /\ pc_srv' = "send"
    /\ UNCHANGED <<g, stop_event, loop_vars, msg, cfg_local, reply, n_req, env_vars,
                   h_napplied, h_in_order, h_stop_iter, h_stop_pos, h_load_iter, h_want, h_ack_lo,
                   h_nreply, h_last2>>

\* read_bdr: path, cfg = readBDRConfig(path), command_queue.put(LOAD_CONFIG);
\* _load_toml raises in readBDRConfig and execute returns the error.
ReadBdrPath(m) == IF Len(m.args) > 0 THEN m.args[1] ELSE ""

ServerExecReadBdr ==
    /\ pc_srv = "exec"
    /\ msg.name = "readBDRConfig"
    /\ msg.args_kind # "other"
    /\ IF load_toml_error(ReadBdrPath(msg)) = ""
       THEN /\ cfg_local' = readBDRConfig(ReadBdrPath(msg))
            /\ command_queue' = QueuePut(command_queue,
                    make_cmd("LOAD_CONFIG",
                             [rtc_config |-> readBDRConfig(ReadBdrPath(msg)),
                              path |-> ReadBdrPath(msg)]) @@ [seq |-> h_enq + 1])
            /\ h_enq' = h_enq + 1
            /\ pc_srv' = "read_bdr_set"
            /\ UNCHANGED out
       ELSE /\ out' = [error |-> load_toml_error(ReadBdrPath(msg))]
            /\ pc_srv' = "send"
            /\ UNCHANGED <<cfg_local, command_queue, h_enq>>
    /\ UNCHANGED <<g, stop_event, loop_vars, msg, reply, n_req, env_vars,
                   h_napplied, h_in_order, h_stop_iter, h_stop_pos, h_load_iter, h_want, h_ack_lo,
                   h_nreply, h_last2>>

\* read_bdr: globals_.active_config_filename = path, and the result
ReadBdrResult(path, cfg) ==
    [ok |-> TRUE,
     config_file |-> path,
     configured |-> IF cfg.len_I2M_LO > 0 \/ cfg.len_I2M_HO > 0 THEN 1 ELSE 0,
     frequency |-> cfg.fps]

ServerReadBdrSet ==
    /\ pc_srv = "read_bdr_set"
    /\ g' = [g EXCEPT !.active_config_filename = ReadBdrPath(msg)]
    /\ out' = ReadBdrResult(ReadBdrPath(msg), cfg_local)
    /\ cfg_local' = None
    /\ pc_srv' = "send"
    /\ UNCHANGED <<command_queue, stop_event, loop_vars, msg, reply, n_req, env_vars,
                   hist_vars>>

\* status: cfg, lo_ready, ho_ready and configured are computed, TT_state and
\* HO_state are read, and globals_.observing_mode raises AttributeError
\* (RuntimeGlobals has no such attribute); execute returns the error.
status(gl) == [error |-> "'RuntimeGlobals' object has no attribute 'observing_mode'"]

ServerExecStatus ==
    /\ pc_srv = "exec"
    /\ msg.name = "status"
    /\ msg.args_kind # "other"
    /\ out' = status(g)
    /\ pc_srv' = "send"
    /\ UNCHANGED <<g, command_queue, stop_event, loop_vars, msg, cfg_local, reply,
                   n_req, env_vars, hist_vars>>

\* The LO mode the reply `body` to the request `name` acknowledges, prev if none.
AckLo(name, body, prev) ==
    IF "ok" \notin DOMAIN body THEN prev
    ELSE IF name \in {"close_all", "close_baldr_LO"} THEN SERVO_CLOSE
    ELSE IF name \in {"open_all", "open_baldr_LO"} THEN SERVO_OPEN
    ELSE prev

\* sock.send_string(json.dumps(out))
ServerSend ==
    /\ pc_srv = "send"
    /\ reply' = [to |-> msg.name, body |-> out]
    /\ h_nreply' = h_nreply + 1
    /\ out' = None
    /\ msg' = None
    /\ pc_srv' = "top"
    /\ h_ack_lo' = AckLo(msg.name, out, h_ack_lo)
    /\ UNCHANGED <<g, command_queue, stop_event, loop_vars, cfg_local, n_req, env_vars,
                   h_enq, h_napplied, h_in_order, h_stop_iter, h_stop_pos, h_load_iter,
                   h_want, h_last2>>

ServerNext ==
    \/ ServerTop
    \/ ServerPollTimeout
    \/ ServerRecv
    \/ ServerExitAck
    \/ ServerExitSet
    \/ ServerParseFailed
    \/ ServerExecNotFound
    \/ ServerExecQueueing
    \/ ServerExecReadBdr
    \/ ServerReadBdrSet
    \/ ServerExecStatus
    \/ ServerSend

Next == LoopNext \/ ServerNext

Spec == Init /\ [][Next]_vars

\* The loop is a thread of its own and is always scheduled again.
FairSpec == Spec /\ WF_vars(LoopNext)

\* The same program under the scripted storm.
SpecStorm == StormInit /\ [][Next]_vars

\* _apply_command on arbitrary command dicts: the loop thread alone.
SpecApply == ApplyInit /\ [][LoopNext]_vars /\ WF_vars(LoopNext)

\* Both threads are always scheduled again.
FairBothSpec == Spec /\ WF_vars(LoopNext) /\ WF_vars(ServerNext)

(* -------------------------------- main() -------------------------------- *)
\* stop_event.wait(): main() goes on once the event is set.
MainWait ==
    /\ pc_main = "wait"
    /\ stop_event
    /\ pc_main' = "close_camera"
    /\ UNCHANGED <<g, command_queue, stop_event, loop_vars, srv_vars, storm, clock_vars, cursor,
                   ctrl_vars, io_closed, hist_vars>>

\* try: g.camera_io.close()  except Exception: pass
MainCloseCamera ==
    /\ pc_main = "close_camera"
    /\ io_closed' = IF g.camera_io # None THEN io_closed \cup {"camera"} ELSE io_closed
    /\ pc_main' = "close_dm"
    /\ UNCHANGED <<g, command_queue, stop_event, loop_vars, srv_vars, storm, clock_vars, cursor,
                   ctrl_vars, hist_vars>>

\* try: g.dm_io.close()  except Exception: pass
MainCloseDM ==
    /\ pc_main = "close_dm"
    /\ io_closed' = IF g.dm_io # None THEN io_closed \cup {"dm"} ELSE io_closed
    /\ pc_main' = "join"
    /\ UNCHANGED <<g, command_queue, stop_event, loop_vars, srv_vars, storm, clock_vars, cursor,
                   ctrl_vars, hist_vars>>

\* rtc_thread.join(timeout=2.0), telem_thread.join(timeout=2.0),
\* cmd_server.join(timeout=2.0), return 0: each join returns when its thread
\* has ended or its two seconds are over, so main() returns whatever the
\* threads are doing; they are daemon threads and end with the process.
MainJoin ==
    /\ pc_main = "join"
    /\ pc_main' = "done"
    /\ UNCHANGED <<g, command_queue, stop_event, loop_vars, srv_vars, storm, clock_vars, cursor,
                   ctrl_vars, io_closed, hist_vars>>

MainNext == MainWait \/ MainCloseCamera \/ MainCloseDM \/ MainJoin

NextMain == Next \/ MainNext

\* The three threads of the process: the loop, the server and main().
SpecMain == Init /\ [][NextMain]_vars

\* Every thread is always scheduled again.
FairMainSpec == SpecMain /\ WF_vars(LoopNext) /\ WF_vars(ServerNext) /\ WF_vars(MainNext)

\* The program with a camera and a DM that may be absent (RuntimeGlobals'
\* default None) and whose calls may raise.
FaultInit ==
    /\ InitCommon
    /\ storm = FALSE
    /\ \E p \in ValidPaths : \E c, d \in {None, IOHandle} :
          g = [RuntimeGlobals(p) EXCEPT !.camera_io = c, !.dm_io = d]

NextFaults == Next \/ LoopCamReadRaises \/ LoopDMWriteRaises

SpecFaults == FaultInit /\ [][NextFaults]_vars

(* ------------------- RTCThread.run against the clock ------------------- *)
\* dt = 1.0 / fps, in ticks: the period of the loop.
dt == TicksPerPeriod

\* next_t += dt; sleep = next_t - time.perf_counter(); if sleep > 0:
\* time.sleep(sleep) -- for a cycle whose work ended at time t_end: the new
\* next_t and the time at which the next iteration starts.
Deadline(nt, t_end) ==
    [next_t |-> nt + dt,
     now |-> IF (nt + dt) - t_end > 0 THEN nt + dt ELSE t_end]

\* Mutant: a sample that finds the ring full is dropped.
RunIterationDropsWhenFull ==
    /\ pc_loop = "top"
    /\ ~stop_event
    /\ g.servo_mode # SERVO_STOP
    /\ command_queue = << >>
    /\ ~g.pause_rtc
    /\ now < MaxTime
    /\ \E w \in 1..MaxWork :
          /\ next_t' = Deadline(next_t, now + w).next_t
          /\ now' = Deadline(next_t, now + w).now
          /\ h_overran' = (now + w > next_t + dt)
    /\ UNCHANGED h_paused
    /\ frame_id' = frame_id + 1
    /\ dm_cmd' = IF g.dm_io # None THEN ZeroCommand ELSE dm_cmd
    /\ telem_ring' = Append(telem_ring, Sample(g, frame_id + 1))
    /\ ring' = IF Len(ring) < telem_capacity
               THEN push(ring, telem_capacity, Sample(g, frame_id + 1))
               ELSE ring
    /\ UNCHANGED <<g, command_queue, stop_event, pc_loop, drain_i, pend, srv_vars, storm,
                   cursor, ctrl_vars, main_vars, hist_vars>>

\* One whole iteration of run() with nothing queued and the loop not paused:
\* the cycle's work takes w ticks, the sample is pushed, and the loop sleeps
\* to its deadline if that is still ahead.
RunIteration ==
    /\ pc_loop = "top"
    /\ ~stop_event
    /\ g.servo_mode # SERVO_STOP
    /\ command_queue = << >>
    /\ ~g.pause_rtc
    /\ now < MaxTime
    /\ \E w \in 1..MaxWork :
          /\ next_t' = Deadline(next_t, now + w).next_t
          /\ now' = Deadline(next_t, now + w).now
          /\ h_overran' = (now + w > next_t + dt)
    /\ UNCHANGED h_paused
    /\ frame_id' = frame_id + 1
    /\ dm_cmd' = IF g.dm_io # None THEN ZeroCommand ELSE dm_cmd
    /\ telem_ring' = Append(telem_ring, Sample(g, frame_id + 1))
    /\ ring' = push(ring, telem_capacity, Sample(g, frame_id + 1))
    /\ UNCHANGED <<g, command_queue, stop_event, pc_loop, drain_i, pend, srv_vars, storm,
                   cursor, ctrl_vars, main_vars, hist_vars>>

\* The telemetry drain consumes the samples pushed since its last drain
\* (those of them the ring still holds); it takes nothing out of the ring.
TelemDrain ==
    /\ cursor < Len(telem_ring)
    /\ cursor' = Len(telem_ring)
    /\ UNCHANGED <<g, command_queue, stop_event, loop_vars, srv_vars, storm, clock_vars,
                   ctrl_vars, main_vars, hist_vars>>

\* The loop thread alone against the clock, and the telemetry drain.
TimedInit ==
    /\ InitCommon
    /\ storm = FALSE
    /\ \E p \in ValidPaths : g = RuntimeGlobals(p)

TimedNext == RunIteration \/ TelemDrain

SpecTimed == TimedInit /\ [][TimedNext]_vars

\* pauseRTC or resumeRTC is served while the loop runs: its command is queued.
TimedEnqueue ==
    /\ h_enq < MaxReq
    /\ \E n \in {"pauseRTC", "resumeRTC"} :
          command_queue' = QueuePut(command_queue, HandlerCommand(n) @@ [seq |-> h_enq + 1])
    /\ h_enq' = h_enq + 1
    /\ UNCHANGED <<g, stop_event, loop_vars, srv_vars, env_vars, h_napplied, h_in_order,
                   h_stop_iter, h_stop_pos, h_load_iter, h_want, h_nreply, h_last2, h_ack_lo>>

\* _drain_commands on a queue of fewer than 100 commands: all are applied.
RECURSIVE ApplyAll(_, _)
ApplyAll(gl, q) ==
    IF q = << >> THEN gl ELSE ApplyAll(apply_command(gl, Head(q)), Tail(q))

\* The head of an iteration that finds commands queued: the drain.
TimedDrain ==
    /\ pc_loop = "top"
    /\ ~stop_event
    /\ g.servo_mode # SERVO_STOP
    /\ command_queue # << >>
    /\ Len(command_queue) <= DrainLimit
    /\ g' = ApplyAll(g, command_queue)
    /\ command_queue' = << >>
    /\ h_napplied' = h_napplied + Len(command_queue)
    /\ UNCHANGED <<stop_event, loop_vars, srv_vars, env_vars, h_enq, h_in_order,
                   h_stop_iter, h_stop_pos, h_load_iter, h_want, h_nreply, h_last2, h_ack_lo>>

\* The rest of an iteration whose drain left the loop paused:
\* if self.g.pause_rtc: time.sleep(0.01); continue
RunPausedIteration ==
    /\ pc_loop = "top"
    /\ ~stop_event
    /\ g.servo_mode # SERVO_STOP
    /\ command_queue = << >>
    /\ g.pause_rtc
    /\ now < MaxTime
    /\ now' = now + PauseSleep
    /\ h_paused' = h_paused + PauseSleep
    /\ UNCHANGED <<g, command_queue, stop_event, loop_vars, srv_vars, storm, next_t, h_overran,
                   cursor, ctrl_vars, main_vars, hist_vars>>

PausedNext == TimedEnqueue \/ TimedDrain \/ RunPausedIteration \/ RunIteration

\* The loop thread against the clock, paused and resumed by a client.
SpecPaused == TimedInit /\ [][PausedNext]_vars

\* Module.execute on arguments of every kind, then the program as usual.
NextExecute == Next \/ ServerExecNotList

SpecExecute == ExecInit /\ [][NextExecute]_vars

(* ------------------------------ controllers ---------------------------- *)
\* A vector is a sequence of integers; None is written NoVec (no vector of
\* the model is empty).
NoVec == << >>

\* np.full(n, v)
full(n, v) == [i \in 1..n |-> v]

VAdd(a, b) == [i \in 1..Len(a) |-> a[i] + b[i]]
VSub(a, b) == [i \in 1..Len(a) |-> a[i] - b[i]]
VMul(a, b) == [i \in 1..Len(a) |-> a[i] * b[i]]
VMin(a, b) == [i \in 1..Len(a) |-> IF a[i] < b[i] THEN a[i] ELSE b[i]]
VMax(a, b) == [i \in 1..Len(a) |-> IF a[i] > b[i] THEN a[i] ELSE b[i]]

\* What a construction that raises leaves: no controller.
Raised(kind) == [kind |-> kind, ok |-> FALSE]

\* _as_vec(x, n, default): ok is FALSE when it raises ValueError.
as_vec(x, n, default) ==
    IF x = NoVec THEN [ok |-> TRUE, a |-> full(n, default)]
    ELSE IF Len(x) = 1 THEN [ok |-> TRUE, a |-> full(n, x[1])]
    ELSE IF Len(x) # n THEN [ok |-> FALSE, a |-> NoVec]
    ELSE [ok |-> TRUE, a |-> x]

\* __post_init__ on u_min, u_max, setpoint (and the leaky kp): None stays
\* None, one element is broadcast to n, any other size but n raises.
post_init_optional(x, n) ==
    IF x = NoVec THEN [ok |-> TRUE, a |-> NoVec]
    ELSE IF Len(x) = 1 THEN [ok |-> TRUE, a |-> full(n, x[1])]
    ELSE IF Len(x) # n THEN [ok |-> FALSE, a |-> NoVec]
    ELSE [ok |-> TRUE, a |-> x]

\* PIDController(kp, ki, kd, dt, u_min, u_max, setpoint) and __post_init__:
\* n is the size of kp; ki and kd must have that size.
PIDController(kp, ki, kd, dt_, u_min, u_max, setpoint) ==
    LET n == Len(kp)
        lo == post_init_optional(u_min, n)
        hi == post_init_optional(u_max, n)
        sp == post_init_optional(setpoint, n)
    IN IF Len(ki) # n \/ Len(kd) # n THEN Raised("pid")
       ELSE IF dt_ <= 0 THEN Raised("pid")
       ELSE IF ~lo.ok \/ ~hi.ok \/ ~sp.ok THEN Raised("pid")
       ELSE [kind |-> "pid", ok |-> TRUE, n |-> n, kp |-> kp, ki |-> ki, kd |-> kd,
             rho |-> NoVec, dt |-> dt_, u_min |-> lo.a, u_max |-> hi.a, setpoint |-> sp.a,
             state |-> full(n, 0), e_prev |-> full(n, 0)]

\* LeakyIntegrator(rho, ki, kp, u_min, u_max, setpoint) and __post_init__:
\* n is the size of rho; ki must have that size.
LeakyIntegrator(rho, ki, kp, u_min, u_max, setpoint) ==
    LET n == Len(rho)
        p == post_init_optional(kp, n)
        lo == post_init_optional(u_min, n)
        hi == post_init_optional(u_max, n)
        sp == post_init_optional(setpoint, n)
    IN IF Len(ki) # n THEN Raised("leaky")
       ELSE IF ~p.ok \/ ~lo.ok \/ ~hi.ok \/ ~sp.ok THEN Raised("leaky")
       ELSE [kind |-> "leaky", ok |-> TRUE, n |-> n, kp |-> p.a, ki |-> ki, kd |-> NoVec,
             rho |-> rho, dt |-> 1, u_min |-> lo.a, u_max |-> hi.a, setpoint |-> sp.a,
             state |-> full(n, 0), e_prev |-> NoVec]

\* _as_vec(x, n) if x is not None else None
as_vec_optional(x, n) == IF x = NoVec THEN [ok |-> TRUE, a |-> NoVec] ELSE as_vec(x, n, 0)

\* build_controller(controller_type, n, dt=, kp=, ki=, kd=, rho=, u_min=, u_max=, setpoint=)
build_controller(t, n, dt_, kp, ki, kd, rho, u_min, u_max, setpoint) ==
    LET lo == as_vec_optional(u_min, n)
        hi == as_vec_optional(u_max, n)
        sp == as_vec_optional(setpoint, n)
    IN IF t = "pid"
       THEN IF \/ ~as_vec(kp, n, 0).ok \/ ~as_vec(ki, n, 0).ok \/ ~as_vec(kd, n, 0).ok
               \/ ~lo.ok \/ ~hi.ok \/ ~sp.ok
            THEN Raised("pid")
            ELSE PIDController(as_vec(kp, n, 0).a, as_vec(ki, n, 0).a, as_vec(kd, n, 0).a,
                               dt_, lo.a, hi.a, sp.a)
       ELSE IF t = "leaky"
       THEN IF \/ ~as_vec(rho, n, 1).ok \/ ~as_vec(ki, n, 0).ok \/ ~as_vec_optional(kp, n).ok
               \/ ~lo.ok \/ ~hi.ok \/ ~sp.ok
            THEN Raised("leaky")
            ELSE LeakyIntegrator(as_vec(rho, n, 1).a, as_vec(ki, n, 0).a,
                                 as_vec_optional(kp, n).a, lo.a, hi.a, sp.a)
       ELSE Raised(t)

\* The clipping both process() methods end with, on the array u.
Clip(u, u_min, u_max) ==
    IF u_min = NoVec /\ u_max = NoVec THEN u
    ELSE IF u_min = NoVec THEN VMin(u, u_max)
    ELSE IF u_max = NoVec THEN VMax(u, u_min)
    ELSE VMin(VMax(u, u_min), u_max)

\* Mutant: the state is replaced, not accumulated.
LeakyProcessForgets(c, e) ==
    LET e1 == IF c.setpoint = NoVec THEN e ELSE VSub(e, c.setpoint)
        s1 == VMul(c.ki, e1)
        u0 == IF c.kp = NoVec THEN s1 ELSE VAdd(s1, VMul(c.kp, e1))
        u == Clip(u0, c.u_min, c.u_max)
    IN [state |-> IF c.kp = NoVec THEN u ELSE s1,
        e_prev |-> c.e_prev,
        u |-> u,
        is_state |-> c.kp = NoVec]

\* LeakyIntegrator.process(e): the state after the call, the array returned
\* and whether that array is the state array itself.  With kp None u is
\* self._state, and the clipping, done in place (out=u), writes the state.
LeakyProcess(c, e) ==
    LET e1 == IF c.setpoint = NoVec THEN e ELSE VSub(e, c.setpoint)
        s1 == VAdd(VMul(c.state, c.rho), VMul(c.ki, e1))
        u0 == IF c.kp = NoVec THEN s1 ELSE VAdd(s1, VMul(c.kp, e1))
        u == Clip(u0, c.u_min, c.u_max)
    IN [state |-> IF c.kp = NoVec THEN u ELSE s1,
        e_prev |-> c.e_prev,
        u |-> u,
        is_state |-> c.kp = NoVec]

\* PIDController.process(e), for dt = 1: u is a fresh array.
PIDProcess(c, e) ==
    LET e1 == IF c.setpoint = NoVec THEN e ELSE VSub(e, c.setpoint)
        i1 == VAdd(c.state, e1)
        d == VSub(e1, c.e_prev)
        u0 == VAdd(VAdd(VMul(c.kp, e1), VMul(c.ki, i1)), VMul(c.kd, d))
    IN [state |-> i1,
        e_prev |-> e1,
        u |-> Clip(u0, c.u_min, c.u_max),
        is_state |-> FALSE]

\* Vectors handed to a construction: of every length to MaxVecLen, uniform.
VecsOf(vals) == {full(len, v) : len \in 1..MaxVecLen, v \in vals}
Optional(vecs) == vecs \cup {NoVec}

\* Error vectors fed to process().
ErrVecs(n) == [1..n -> {-1, 2}]

\* build_controller(...) is called.
CtrlBuild ==
    /\ ctrl = NoCtrl
    /\ \E t \in {"pid", "leaky", "lqg"}, n \in 1..MaxDim, d \in {0, 1},
          kp \in Optional(VecsOf({0, 1})), ki \in Optional(VecsOf({1, 2})),
          kd \in Optional(VecsOf({0})), rho \in Optional(VecsOf({0, 1})),
          u_min \in Optional(VecsOf({-1})), u_max \in Optional(VecsOf({1})),
          setpoint \in Optional(VecsOf({1})) :
          /\ (t = "lqg" => kp = NoVec /\ ki = NoVec /\ kd = NoVec /\ rho = NoVec /\ u_min = NoVec
                             /\ u_max = NoVec /\ setpoint = NoVec /\ d = 1 /\ n = 1)
          /\ (t = "leaky" => d = 1)
          /\ ctrl' = build_controller(t, n, d, kp, ki, kd, rho, u_min, u_max, setpoint)
          /\ h_ctrl' = [h_ctrl EXCEPT !.args =
                [via |-> "build_controller", kind |-> t, n |-> n, dt |-> d, kp |-> kp, ki |-> ki,
                 kd |-> kd, rho |-> rho, u_min |-> u_min, u_max |-> u_max,
                 setpoint |-> setpoint]]
    /\ UNCHANGED <<g, command_queue, stop_event, loop_vars, srv_vars, storm, clock_vars,
                   cursor, ret, main_vars, hist_vars>>

\* PIDController(...) is constructed directly; n is the size of kp.
CtrlNewPID ==
    /\ ctrl = NoCtrl
    /\ \E d \in {0, 1}, kp \in VecsOf({0, 1}), ki \in VecsOf({1, 2}), kd \in VecsOf({0}),
          u_min \in Optional(VecsOf({-1})), u_max \in Optional(VecsOf({1})),
          setpoint \in Optional(VecsOf({1})) :
          /\ ctrl' = PIDController(kp, ki, kd, d, u_min, u_max, setpoint)
          /\ h_ctrl' = [h_ctrl EXCEPT !.args =
                [via |-> "class", kind |-> "pid", n |-> Len(kp), dt |-> d, kp |-> kp, ki |-> ki,
                 kd |-> kd, rho |-> NoVec, u_min |-> u_min, u_max |-> u_max,
                 setpoint |-> setpoint]]
    /\ UNCHANGED <<g, command_queue, stop_event, loop_vars, srv_vars, storm, clock_vars,
                   cursor, ret, main_vars, hist_vars>>

\* LeakyIntegrator(...) is constructed directly; n is the size of rho.
CtrlNewLeaky ==
    /\ ctrl = NoCtrl
    /\ \E rho \in VecsOf({0, 1}), ki \in VecsOf({1, 2}), kp \in Optional(VecsOf({0, 1})),
          u_min \in Optional(VecsOf({-1})), u_max \in Optional(VecsOf({1})),
          setpoint \in Optional(VecsOf({1})) :
          /\ ctrl' = LeakyIntegrator(rho, ki, kp, u_min, u_max, setpoint)
          /\ h_ctrl' = [h_ctrl EXCEPT !.args =
                [via |-> "class", kind |-> "leaky", n |-> Len(rho), dt |-> 1, kp |-> kp,
                 ki |-> ki, kd |-> NoVec, rho |-> rho, u_min |-> u_min, u_max |-> u_max,
                 setpoint |-> setpoint]]
    /\ UNCHANGED <<g, command_queue, stop_event, loop_vars, srv_vars, storm, clock_vars,
                   cursor, ret, main_vars, hist_vars>>

\* process(e) is called on the controller, with an e of the controller's size.
CtrlProcess ==
    /\ ctrl.kind \in {"pid", "leaky"}
    /\ ctrl.ok
    /\ h_ctrl.ops < MaxCalls
    /\ \E e \in ErrVecs(ctrl.n) :
          LET r == IF ctrl.kind = "leaky" THEN LeakyProcess(ctrl, e) ELSE PIDProcess(ctrl, e)
              out_ == [val |-> r.u, is_state |-> r.is_state]
          IN /\ ctrl' = [ctrl EXCEPT !.state = r.state, !.e_prev = r.e_prev]
             /\ ret' = out_
             /\ h_ctrl' = [args |-> [via |-> "none"],
                           ops |-> h_ctrl.ops + 1,
                           calls |-> h_ctrl.calls + 1,
                           e |-> e,
                           same_e |-> (h_ctrl.calls = 0 \/ (h_ctrl.same_e /\ e = h_ctrl.e)),
                           first |-> IF h_ctrl.first = NoArray THEN out_ ELSE h_ctrl.first]
    /\ UNCHANGED <<g, command_queue, stop_event, loop_vars, srv_vars, storm, clock_vars,
                   cursor, main_vars, hist_vars>>

\* reset(): the state arrays are filled with zeros, in place.
CtrlReset ==
    /\ ctrl.kind \in {"pid", "leaky"}
    /\ ctrl.ok
    /\ h_ctrl.calls > 0
    /\ h_ctrl.ops < MaxCalls
    /\ ctrl' = [ctrl EXCEPT !.state = full(ctrl.n, 0),
                            !.e_prev = IF ctrl.kind = "pid" THEN full(ctrl.n, 0) ELSE NoVec]
    /\ h_ctrl' = [h_ctrl EXCEPT !.ops = h_ctrl.ops + 1, !.calls = 0, !.same_e = TRUE]
    /\ UNCHANGED <<g, command_queue, stop_event, loop_vars, srv_vars, storm, clock_vars,
                   cursor, ret, main_vars, hist_vars>>

\* The value an array returned by process() holds now: the state's, if it
\* is the state array.
ValueNow(arr) == IF arr.is_state THEN ctrl.state ELSE arr.val

\* A controller on its own: constructed, then fed errors.
CtrlInit ==
    /\ InitCommon
    /\ storm = FALSE
    /\ g = RuntimeGlobals("simple.toml")

CtrlNext == CtrlBuild \/ CtrlNewPID \/ CtrlNewLeaky \/ CtrlProcess \/ CtrlReset

SpecCtrl == CtrlInit /\ [][CtrlNext]_vars

(* ============================= claims ================================== *)
Last(sq) == sq[Len(sq)]

CyclePcs == {"cam", "dm", "telem"}

\* A step of the control cycle: the frame id is incremented, the camera is
\* read, the DM is written or a telemetry sample is pushed.
CycleStep ==
    \/ frame_id' # frame_id
    \/ pc_loop = "cam" /\ pc_loop' = "dm"
    \/ pc_loop = "dm" /\ pc_loop' = "telem"
    \/ telem_ring' # telem_ring

\* The model explores no further iteration: MaxFrames cycles have run.
FrameBoundReached == pc_loop = "top" /\ frame_id >= MaxFrames

C2_CycleSeesLastSet ==
    [][/\ (pc_loop' \in CyclePcs =>
             /\ g'.servo_mode_LO = h_want'.lo
             /\ g'.servo_mode_HO = h_want'.ho)
       /\ (telem_ring' # telem_ring =>
             /\ Last(telem_ring').lo_state = h_want.lo
             /\ Last(telem_ring').ho_state = h_want.ho)]_vars

\* A sample pushed after two or more commands, LO closed and HO open.
C2_Witness ==
    /\ telem_ring # << >>
    /\ h_napplied >= 2
    /\ Last(telem_ring).lo_state = SERVO_CLOSE
    /\ Last(telem_ring).ho_state = SERVO_OPEN

\* C3: commands are applied in the order they were enqueued, across drain
\* batches and with producers enqueueing during the drain: the k-th command
\* applied is the k-th command enqueued.
C3_AppliedInEnqueueOrder == h_in_order /\ h_napplied <= h_enq

\* Two commands have been applied, the second one in a later batch.
C3_Witness ==
    /\ h_napplied >= 2
    /\ pc_loop = "drain"
    /\ drain_i = 1

\* C4 as stated: every command enqueued is consumed exactly once, so none is
\* left in the queue when the loop has terminated.
C4_EveryCommandConsumed == pc_loop = "done" => command_queue = << >>

\* C4 as amended: a command is never applied twice, and it is eventually
\* applied unless the loop terminates first (a command still queued when the
\* loop exits is never consumed).
C4_AtMostOnceAndEventuallyUnlessExit ==
    /\ [](h_in_order /\ h_napplied <= h_enq)
    /\ \A k \in 1..MaxReq :
          (h_enq >= k) ~> (h_napplied >= k \/ pc_loop = "done" \/ FrameBoundReached)

\* Every command enqueued so far has been applied and the loop still runs.
C4_Witness ==
    /\ h_enq >= 2
    /\ h_napplied = h_enq
    /\ command_queue = << >>
    /\ pc_loop = "pause_check"

\* C5: one drain applies at most 100 commands and returns; the commands
\* beyond the bound stay queued, in enqueue order.
C5_DrainBounded ==
    /\ drain_i <= DrainLimit
    /\ \A k \in 1..Len(command_queue) : command_queue[k].seq = h_napplied + k

\* The drain has applied 100 commands and more are queued.
C5_Witness ==
    /\ pc_loop = "drain"
    /\ drain_i = DrainLimit
    /\ command_queue # << >>

\* C6: no step of the command server or of a handler writes a RunState field.
C6_HandlersNeverWriteRunState ==
    [][pc_srv' # pc_srv => g' = g]_vars

\* The load whose values a status or readBDRConfig result carries.
LoadOfFlags(body) == IF body.configured = 1 THEN "legacy.toml" ELSE "simple.toml"

C8_CycleSeesNewLoadInFull ==
    (pc_loop \in CyclePcs /\ h_load_iter # "") =>
        /\ g.rtc_config.src = h_load_iter
        /\ g.active_config_filename = h_load_iter
        /\ g.model.built_from = h_load_iter

\* C9: STOPPED is terminal: no command returns servo_mode to RUNNING, and a
\* STOP applied while STOPPED changes nothing and the drain goes on.
C9_StoppedIsTerminal ==
    [][/\ (g.servo_mode = SERVO_STOP => g'.servo_mode = SERVO_STOP)
       /\ (/\ g.servo_mode = SERVO_STOP
           /\ pc_loop = "drain"
           /\ command_queue # << >>
           /\ Head(command_queue).type = "STOP"
           /\ h_napplied' # h_napplied)
            => (g' = g /\ pc_loop' = "drain")]_vars

\* STOP was first in this batch and more commands were applied behind it.
C9_Witness ==
    /\ g.servo_mode = SERVO_STOP
    /\ pc_loop = "drain"
    /\ h_stop_pos = 1
    /\ drain_i >= 2

\* C10 as stated: whatever is pending, a STOP that is queued when a drain
\* begins has been applied when that drain returns.
C10_StopAppliedByNextDrain ==
    [][(pc_loop = "drain" /\ pc_loop' = "pause_check" /\ h_stop_pos > 0)
         => g.servo_mode = SERVO_STOP]_vars

\* C10 as amended: a STOP with fewer than 100 commands queued ahead of it
\* when a drain begins has been applied when that drain returns, and the
\* loop exits at the top of the iteration that follows.
C10_StopAppliedWithinDrainLimit ==
    [][/\ (pc_loop = "drain" /\ pc_loop' = "pause_check" /\ h_stop_pos \in 1..DrainLimit)
            => g.servo_mode = SERVO_STOP
       /\ (pc_loop = "top" /\ g.servo_mode = SERVO_STOP /\ pc_loop' # "top")
            => pc_loop' = "done"]_vars

\* A drain that began with commands queued ahead of the STOP has applied it.
C10_Witness ==
    /\ pc_loop = "pause_check"
    /\ h_stop_pos \in 2..DrainLimit
    /\ g.servo_mode = SERVO_STOP

\* C11: shutdown is cooperative.  With the stop event set, the loop leaves at
\* the head of its next iteration (paused or not) and the server at the head
\* of its next poll round (traffic or not); a thread that has left starts no
\* cycle and receives no request; the event is never cleared and both
\* threads terminate.
C11_CooperativeShutdown ==
    /\ [][/\ (stop_event /\ pc_loop = "top" /\ pc_loop' # pc_loop) => pc_loop' = "done"
          /\ (stop_event /\ pc_srv = "top" /\ pc_srv' # pc_srv) => pc_srv' = "done"
          /\ (pc_loop = "done" => UNCHANGED <<loop_vars, h_napplied>>)
          /\ (pc_srv = "done" => UNCHANGED srv_vars)
          /\ (stop_event => stop_event')]_vars
    /\ stop_event ~> (pc_loop = "done" /\ pc_srv = "done")

\* The loop raised the event on STOP while paused, without having run a
\* cycle; the server, with no request pending, left from its poll round.
C11_Witness ==
    /\ pc_loop = "done"
    /\ pc_srv = "done"
    /\ g.pause_rtc
    /\ g.servo_mode = SERVO_STOP
    /\ frame_id = 0
    /\ reply.to # "exit"

ExitAck == [to |-> "exit", body |-> "Exiting!"]

\* C12: a message that is exactly exit once stripped, and no other, takes the
\* exit path: "Exiting!" is sent first, the stop event is set next, nothing
\* is parsed, executed or enqueued for it, and the server receives nothing
\* afterwards.
C12_ExitAcknowledgedThenStop ==
    [][/\ (pc_srv = "poll" /\ pc_srv' \notin {"poll", "top"}) =>
             /\ (msg'.raw \in {ExitText, <<Ws, Word("exit"), Ws>>}) <=> (pc_srv' = "exit_ack")
             /\ pc_srv' \in {"exit_ack", "exec"}
       /\ (pc_srv = "exit_ack" /\ pc_srv' # pc_srv) =>
             /\ reply' = ExitAck
             /\ pc_srv' = "exit_set"
             /\ UNCHANGED <<stop_event, command_queue, g, out, msg>>
       /\ (pc_srv = "exit_set" /\ pc_srv' # pc_srv) =>
             /\ reply = ExitAck
             /\ stop_event'
             /\ pc_srv' = "done"
             /\ UNCHANGED <<command_queue, g, out, msg, reply>>
       /\ (pc_srv = "done" => UNCHANGED srv_vars)]_vars

\* exit between blanks was acknowledged and ended the server while the
\* client had requests left to send.
C12_Witness ==
    /\ pc_srv = "done"
    /\ msg # None
    /\ msg.raw = <<Ws, Word("exit"), Ws>>
    /\ reply = ExitAck
    /\ stop_event
    /\ n_req < MaxReq

\* C13: requests and replies alternate strictly: a request is received only
\* when every earlier one has been answered, and the request being served
\* has not been answered yet; so each request gets exactly one reply.
C13_StrictAlternation ==
    /\ pc_srv \in {"top", "poll", "exit_set", "done"} => h_nreply = n_req
    /\ pc_srv \in {"exec", "read_bdr_set", "send", "exit_ack"} => n_req = h_nreply + 1

\* Two requests received and answered, the second with the error object of
\* a parse failure.
C13_Witness ==
    /\ n_req = 2
    /\ h_nreply = 2
    /\ reply.to = ""
    /\ reply.body = [error |-> "parse"]

\* C14: an iteration that finds paused set after its drain goes back to the
\* head of the loop without incrementing the frame id or pushing telemetry;
\* no camera read, DM write or telemetry push ever happens while paused, and
\* no sample records paused.
C14_PausedIterationSkipsCycle ==
    /\ [](pc_loop \in CyclePcs => ~g.pause_rtc)
    /\ [](\A k \in 1..Len(telem_ring) : ~telem_ring[k].paused)
    /\ [][(pc_loop = "pause_check" /\ g.pause_rtc /\ pc_loop' # pc_loop) =>
             (pc_loop' = "top" /\ UNCHANGED <<frame_id, telem_ring, ring, dm_cmd>>)]_vars

\* A paused iteration has drained a command and gone back to the head of
\* the loop; no cycle has run.
C14_Witness ==
    /\ g.pause_rtc
    /\ pc_loop = "top"
    /\ h_napplied >= 1
    /\ frame_id = 0
    /\ telem_ring = << >>

\* C15: every iteration that does not exit drains the queue before its pause
\* test, paused or not; a RESUME queued while the loop is paused is applied
\* unless the loop exits first (or the model's frame bound is reached).
C15_NeverSkipsDrain ==
    /\ [][/\ (pc_loop = "top" /\ pc_loop' \notin {"top", "done"}) => pc_loop' = "drain"
          /\ (pc_loop' = "pause_check" /\ pc_loop # "pause_check") => pc_loop = "drain"]_vars
    /\ (g.pause_rtc /\ \E k \in 1..Len(command_queue) : command_queue[k].type = "RESUME")
          ~> (~g.pause_rtc \/ pc_loop = "done" \/ FrameBoundReached)

\* RESUME was applied by the drain of an iteration that followed the paused
\* iteration which applied PAUSE.
C15_Witness ==
    /\ h_last2 = <<"PAUSE", "RESUME">>
    /\ ~g.pause_rtc
    /\ pc_loop = "drain"
    /\ drain_i = 1
    /\ h_napplied = 2
    /\ frame_id = 0

\* The drain applies the first write of a command of type t in this step.
AppliedStep(t) ==
    /\ pc_loop = "drain"
    /\ h_napplied' = h_napplied + 1
    /\ TypeOf(Head(command_queue)) = t

PauseCmd == make_cmd("PAUSE", NoPayload)
ResumeCmd == make_cmd("RESUME", NoPayload)

\* C16: PAUSE applied twice leaves what PAUSE applied once leaves, and
\* RESUME applied when not paused changes nothing.
C16_PauseResumeIdempotent ==
    /\ [](apply_command(apply_command(g, PauseCmd), PauseCmd) = apply_command(g, PauseCmd))
    /\ [](~g.pause_rtc => apply_command(g, ResumeCmd) = g)
    /\ [][/\ (AppliedStep("PAUSE") /\ g.pause_rtc) => g' = g
          /\ (AppliedStep("RESUME") /\ ~g.pause_rtc) => g' = g]_vars

\* PAUSE has been applied twice in a row.
C16_Witness ==
    /\ h_last2 = <<"PAUSE", "PAUSE">>
    /\ g.pause_rtc
    /\ pc_loop = "drain"

\* C17: applying PAUSE or RESUME changes the paused flag and nothing else.
C17_PauseResumeOnlyPaused ==
    [][/\ AppliedStep("PAUSE") => g' = [g EXCEPT !.pause_rtc = TRUE]
       /\ AppliedStep("RESUME") => g' = [g EXCEPT !.pause_rtc = FALSE]]_vars

\* PAUSE was applied after both loops had been closed; they are still closed.
C17_Witness ==
    /\ h_last2 = <<"SET_LOHO", "PAUSE">>
    /\ g.pause_rtc
    /\ g.servo_mode_LO = SERVO_CLOSE
    /\ g.servo_mode_HO = SERVO_CLOSE
    /\ g.servo_mode = SERVO_RUN

\* C18: SET_LO changes servo_mode_LO and nothing else, SET_HO changes
\* servo_mode_HO and nothing else.
C18_BandsIndependent ==
    [][/\ AppliedStep("SET_LO") =>
             g' = [g EXCEPT !.servo_mode_LO = Head(command_queue).value]
       /\ AppliedStep("SET_HO") =>
             g' = [g EXCEPT !.servo_mode_HO = Head(command_queue).value]]_vars

\* LO was closed, then HO was opened: LO is still closed.
C18_Witness ==
    /\ h_last2 = <<"SET_LO", "SET_HO">>
    /\ g.servo_mode_LO = SERVO_CLOSE
    /\ g.servo_mode_HO = SERVO_OPEN
    /\ g.servo_mode = SERVO_RUN
    /\ ~g.pause_rtc

\* C19: a command whose type is not a known one is dequeued and ignored: the
\* globals and the stop event are unchanged, the drain goes on with the
\* commands behind it, and every queued command is applied in the end.
C19_UnknownCommandIgnored ==
    /\ [][(/\ pc_loop = "drain"
           /\ h_napplied' = h_napplied + 1
           /\ TypeOf(Head(command_queue)) \notin KnownTypes)
            => /\ g' = g
               /\ command_queue' = Tail(command_queue)
               /\ pc_loop' = "drain"
               /\ UNCHANGED <<stop_event, frame_id, telem_ring, ring, dm_cmd>>]_vars
    /\ <>(h_napplied = h_enq)

\* A SET_LO queued behind a command of unknown type has been applied and the
\* loop has gone on to run a cycle.
C19_Witness ==
    /\ h_last2 = <<"FOO", "SET_LO">>
    /\ g.servo_mode_LO = SERVO_CLOSE
    /\ pc_loop = "cam"

\* C20: a readBDRConfig whose load fails is answered with an error object,
\* and the handler neither enqueues a command nor writes the globals.
C20_FailedLoadNotSwapped ==
    [][/\ (/\ pc_srv = "exec"
           /\ pc_srv' # pc_srv
           /\ ~msg.bad
           /\ msg.name = "readBDRConfig"
           /\ ReadBdrPath(msg) \notin ValidPaths)
            => /\ "error" \in DOMAIN out'
               /\ pc_srv' = "send"
               /\ UNCHANGED <<command_queue, g, h_enq>>
       /\ (pc_srv = "send" /\ pc_srv' # pc_srv)
            => /\ reply' = [to |-> msg.name, body |-> out]
               /\ UNCHANGED <<command_queue, g, h_enq>>]_vars

\* The load of a file that does not exist was answered with an error; no
\* command was ever enqueued and the start-up configuration is in place.
C20_Witness ==
    /\ reply # None
    /\ reply.to = "readBDRConfig"
    /\ "error" \in DOMAIN reply.body
    /\ n_req = 1
    /\ h_enq = 0
    /\ command_queue = << >>
    /\ g.active_config_filename = g.rtc_config.src

\* C21: Module.execute never raises: every call returns a value.  A name
\* that is not registered and an args that is no list each give an
\* {"error": ...} value, with no handler run and nothing enqueued; a handler
\* that raises (status, a load of a file that cannot be read) gives an
\* {"error": ...} value too.
HandlerRaises(m) ==
    \/ m.name = "status"
    \/ m.name = "readBDRConfig" /\ ReadBdrPath(m) \notin ValidPaths

C21_ExecuteNeverRaises ==
    [][(pc_srv = "exec" /\ ~msg.bad /\ pc_srv' # "exec") =>
          /\ pc_srv' \in {"send", "read_bdr_set"}
          /\ (msg.name \notin Registered \/ msg.args_kind = "other") =>
                /\ pc_srv' = "send"
                /\ "error" \in DOMAIN out'
                /\ UNCHANGED <<command_queue, g, h_enq, cfg_local>>
          /\ (msg.name \in Registered /\ msg.args_kind # "other" /\ HandlerRaises(msg)) =>
                /\ pc_srv' = "send"
                /\ "error" \in DOMAIN out']_vars

\* A registered queueing handler called with an args that is no list has
\* been answered with the error, and nothing was enqueued.
C21_Witness ==
    /\ h_nreply = 1
    /\ reply.to = "pauseRTC"
    /\ reply.body = [error |-> "Arguments must be a JSON array."]
    /\ h_enq = 0


\* C22: a readBDRConfig request with no path argument is answered with an
\* {"error": ...} reply that reports a file-not-found error, and no command
\* is enqueued.
C22_NoPathReportsFileNotFound ==
    [][(pc_srv = "exec" /\ ~msg.bad /\ msg.name = "readBDRConfig" /\ msg.args = << >>
            /\ pc_srv' # "exec") =>
          /\ pc_srv' = "send"
          /\ out' = [error |-> "Config file not found"]
          /\ UNCHANGED <<command_queue, h_enq>>]_vars


\* C23: a status reply sent after open_baldr_LO was acknowledged reports
\* TT_state 0 (OPEN), and one sent after close_baldr_LO was acknowledged
\* reports TT_state 1 (CLOSED), whatever the interleaving with the loop.
C23_StatusReportsAcknowledgedLO ==
    (reply # None /\ reply.to = "status" /\ h_ack_lo # -1) =>
        /\ "TT_state" \in DOMAIN reply.body
        /\ reply.body.TT_state = h_ack_lo

\* C24: a status reply reports configured = 0 while no configuration with
\* matrices has been loaded, and configured = 1 once a readBDRConfig of a
\* configuration with non-empty I2M_LO / I2M_HO has been acknowledged.
C24_StatusReportsConfigured ==
    (reply # None /\ reply.to = "status") =>
        /\ "configured" \in DOMAIN reply.body
        /\ (g.active_config_filename = "legacy.toml" => reply.body.configured = 1)
        /\ (h_enq = 0 /\ g.rtc_config.len_I2M_LO = 0 /\ g.rtc_config.len_I2M_HO = 0) =>
              reply.body.configured = 0


C26_CameraFaultCycleContinues ==
    [][(pc_loop = "cam" /\ pc_loop' # "cam") => pc_loop' = "dm"]_vars

\* C27: a DM fault does not stop the loop: whether the DM is absent or the
\* write fails, the cycle goes on from the DM write to the telemetry push.
C27_DMFaultCycleContinues ==
    [][(pc_loop = "dm" /\ pc_loop' # "dm") => pc_loop' = "telem"]_vars


\* The bands whose loop mode (servo_mode_LO, servo_mode_HO) is CLOSED.
ClosedBands(gl) ==
    {b \in {"LO", "HO"} :
        (IF b = "LO" THEN gl.servo_mode_LO ELSE gl.servo_mode_HO) = SERVO_CLOSE}

\* C28: in a control cycle a band's controller is run exactly when the band
\* is CLOSED, and its output is in the DM command: once the cycle has written
\* the DM, the command holds the output of the CLOSED bands and of no other,
\* and the controller of each CLOSED band has been advanced.
C28_ClosedBandsDriveDM ==
    pc_loop = "telem" =>
        /\ dm_cmd = ClosedBands(g)
        /\ \A b \in ClosedBands(g) : g.model.processed[b] > 0


\* C29: the deadline scheduling absorbs an overrun: the cycle that follows
\* an overrun cycle starts without a sleep, and the cycle after that starts
\* one period or more later (no burst of cycles to catch up).
C29_OverrunAbsorbed ==
    [][(h_overran /\ frame_id' = frame_id + 1) => now' - now >= dt]_vars


C31_LeakyAccumulates ==
    (/\ ctrl.kind = "leaky" /\ ctrl.ok
     /\ ctrl.rho = full(ctrl.n, 1) /\ ctrl.ki = full(ctrl.n, 1) /\ ctrl.kp = full(ctrl.n, 0)
     /\ ctrl.setpoint = NoVec /\ ctrl.u_min = NoVec /\ ctrl.u_max = NoVec
     /\ h_ctrl.calls >= 1 /\ h_ctrl.same_e) =>
        /\ ctrl.state = [i \in 1..ctrl.n |-> h_ctrl.calls * h_ctrl.e[i]]
        /\ ret.val = [i \in 1..ctrl.n |-> h_ctrl.calls * h_ctrl.e[i]]

\* Such an integrator of two elements after three calls on e = (-1, 2).
C31_Witness ==
    /\ ctrl.kind = "leaky" /\ ctrl.ok
    /\ ctrl.rho = <<1, 1>> /\ ctrl.ki = <<1, 1>> /\ ctrl.kp = <<0, 0>>
    /\ ctrl.setpoint = NoVec /\ ctrl.u_min = NoVec /\ ctrl.u_max = NoVec
    /\ h_ctrl.calls = 3 /\ h_ctrl.same_e /\ h_ctrl.e = <<-1, 2>>
    /\ ctrl.state = <<-3, 6>>


\* The gain and limit vectors a construction was given, of those its variant
\* takes (the PID variant takes no rho, the leaky variant no kd).
GivenVectors(a) ==
    ((IF a.kind = "pid" THEN {a.kp, a.ki, a.kd} ELSE {a.rho, a.ki, a.kp})
        \cup {a.u_min, a.u_max, a.setpoint}) \ {NoVec}

\* The gain and limit vectors a controller holds.
HeldVectors(c) == {c.kp, c.ki, c.kd, c.rho, c.u_min, c.u_max, c.setpoint} \ {NoVec}

\* C32: construction of either variant (with a dt > 0) succeeds exactly when
\* every gain / limit vector given has length 1 or n, n the controller's
\* dimension, and then every vector the controller holds has length n, so
\* that no length mismatch is left for process().
C32_ConstructionValidatesLengths ==
    [][(ctrl = NoCtrl /\ ctrl' # NoCtrl /\ h_ctrl'.args.kind \in {"pid", "leaky"}
            /\ h_ctrl'.args.dt > 0) =>
          /\ ctrl'.ok <=> (\A v \in GivenVectors(h_ctrl'.args) : Len(v) \in {1, h_ctrl'.args.n})
          /\ ctrl'.ok => (\A v \in HeldVectors(ctrl') : Len(v) = h_ctrl'.args.n)]_vars

\* C39: the clipping of LeakyIntegrator.process does not alter the state:
\* after every call the state is rho * previous state + ki * e (e less the
\* setpoint if there is one), with kp configured or not, and the array the
\* first call returned still holds the value it was returned with.
C39_ClippingLeavesStateAndOutputs ==
    [][(ctrl.kind = "leaky" /\ ctrl.ok /\ h_ctrl'.calls = h_ctrl.calls + 1) =>
          /\ ctrl'.state =
                VAdd(VMul(ctrl.state, ctrl.rho),
                     VMul(ctrl.ki, IF ctrl.setpoint = NoVec THEN h_ctrl'.e
                                   ELSE VSub(h_ctrl'.e, ctrl.setpoint)))
          /\ h_ctrl.first # NoArray =>
                (IF h_ctrl.first.is_state THEN ctrl'.state ELSE h_ctrl.first.val)
                    = h_ctrl.first.val]_vars


\* C33: in every executed cycle the steps come in the order drain, camera
\* read, DM write, telemetry push, each once: the camera read is entered only
\* from the pause test that follows the drain of the same iteration (and
\* takes the next frame id), the DM write only from the camera read, the
\* telemetry push only from the DM write, and the push adds one sample and
\* ends the iteration.
C33_CycleOrder ==
    [][/\ (pc_loop' = "pause_check" /\ pc_loop # "pause_check") => pc_loop = "drain"
       /\ (pc_loop' = "drain" /\ pc_loop \notin {"drain", "apply2"}) => pc_loop = "top"
       /\ (pc_loop' = "cam" /\ pc_loop # "cam") =>
             (pc_loop = "pause_check" /\ frame_id' = frame_id + 1)
       /\ (pc_loop' = "dm" /\ pc_loop # "dm") => pc_loop = "cam"
       /\ (pc_loop' = "telem" /\ pc_loop # "telem") => pc_loop = "dm"
       /\ (pc_loop = "telem" /\ pc_loop' # "telem") =>
             (pc_loop' = "top" /\ Len(telem_ring') = Len(telem_ring) + 1)
       /\ (Len(telem_ring') # Len(telem_ring)) => pc_loop = "telem"
       /\ (frame_id' # frame_id) => pc_loop = "pause_check"]_vars

\* The second cycle is at its telemetry push, after drains that applied two
\* commands.
C33_Witness ==
    /\ pc_loop = "telem"
    /\ frame_id = 2
    /\ h_napplied = 2
    /\ g.servo_mode_LO = SERVO_CLOSE


\* C34: every handler either returns a read-only status snapshot or enqueues
\* a typed command: status returns its snapshot, enqueues nothing and changes
\* no state; each of the nine mode requests enqueues exactly one command, of
\* its variant and payload, changes no state and returns at once.
C34_SnapshotOrEnqueue ==
    [][(pc_srv = "exec" /\ ~msg.bad /\ pc_srv' # "exec") =>
          /\ msg.name = "status" =>
                /\ "error" \notin DOMAIN out'
                /\ UNCHANGED <<g, command_queue, h_enq>>
          /\ msg.name \in QueueingHandlers =>
                /\ Len(command_queue') = Len(command_queue) + 1
                /\ \A f \in DOMAIN HandlerCommand(msg.name) :
                      Last(command_queue')[f] = HandlerCommand(msg.name)[f]
                /\ "ok" \in DOMAIN out'
                /\ pc_srv' = "send"
                /\ UNCHANGED g]_vars


\* C35: every telemetry sample ever pushed carries paused = false.
C35_SamplesNotPaused ==
    \A k \in 1..Len(telem_ring) : ~telem_ring[k].paused

\* A sample was pushed and the loop has been paused since.
C35_Witness ==
    /\ Len(telem_ring) = 1
    /\ g.pause_rtc
    /\ ~telem_ring[1].paused


\* C36: applying STOP does not end the drain batch.  With servo_mode STOPPED
\* the drain returns only on an empty queue or after 100 commands, so the
\* commands behind a STOP in its batch are applied and can change the loop
\* modes, the paused flag and the active configuration; a command is applied
\* with servo_mode STOPPED only in the batch that applied the STOP, so what
\* is left for a later batch is never applied.
C36_StopDoesNotEndBatch ==
    [][/\ (g.servo_mode = SERVO_STOP /\ pc_loop = "drain" /\ pc_loop' = "pause_check")
            => (command_queue = << >> \/ drain_i >= DrainLimit)
       /\ (g.servo_mode = SERVO_STOP /\ h_napplied' # h_napplied)
            => (pc_loop = "drain" /\ h_stop_iter)
       /\ (g.servo_mode = SERVO_STOP /\ pc_loop \in {"top", "done"})
            => h_napplied' = h_napplied]_vars

\* A close_baldr_LO queued behind a STOP was applied in the STOP's batch and
\* closed the LO band of a loop that is STOPPED; the loop has exited since.
C36_Witness ==
    /\ g.servo_mode = SERVO_STOP
    /\ h_last2 = <<"STOP", "SET_LO">>
    /\ g.servo_mode_LO = SERVO_CLOSE
    /\ pc_loop = "done"

\* C37: STOP shuts the whole process down.  The loop that finds servo_mode
\* STOPPED at the head of an iteration sets the stop event as it exits;
\* main() goes past its wait only with the event set; and from there the
\* server ends at the head of its next poll round and main() closes the
\* camera and the DM.
C37_StopShutsProcessDown ==
    /\ [][/\ (pc_loop = "top" /\ ~stop_event /\ g.servo_mode = SERVO_STOP /\ pc_loop' # pc_loop)
                => (stop_event' /\ pc_loop' = "done")
          /\ (pc_main = "wait" /\ pc_main' # pc_main) => stop_event
          /\ (stop_event /\ pc_srv = "top" /\ pc_srv' # pc_srv) => pc_srv' = "done"]_vars
    /\ (pc_loop = "top" /\ g.servo_mode = SERVO_STOP)
          ~> (pc_srv = "done" /\ io_closed = {"camera", "dm"})

\* No client sent exit: the loop applied a STOP and left, the server left
\* after it, and main() closed both collaborators and returned.
C37_Witness ==
    /\ g.servo_mode = SERVO_STOP
    /\ pc_loop = "done"
    /\ pc_srv = "done"
    /\ pc_main = "done"
    /\ io_closed = {"camera", "dm"}
    /\ h_nreply > 0
    /\ reply.to = "stop_baldr"

\* C38: the loop never calls get_frame or write on a collaborator main() has
\* closed: while the process runs, the step that reads the camera finds the
\* camera open and the step that writes the DM finds the DM open.
C38_NoIOAfterClose ==
    [][/\ (pc_main # "done" /\ pc_loop = "cam" /\ pc_loop' # pc_loop /\ g.camera_io # None)
            => "camera" \notin io_closed
       /\ (pc_main # "done" /\ pc_loop = "dm" /\ pc_loop' # pc_loop /\ g.dm_io # None)
            => "dm" \notin io_closed]_vars

\* C40: the deadline moves on by exactly one period in every executed cycle
\* and not at all in a paused iteration; and once the loop has been paused
\* for two periods or more, every cycle that follows is at least one period
\* ahead of the start of the next iteration.
C40_DeadlinePerCycleAndSpacingAfterPause ==
    [][/\ (frame_id' = frame_id + 1 => next_t' = next_t + dt)
       /\ (frame_id' = frame_id => next_t' = next_t)
       /\ (h_paused >= 2 * dt /\ frame_id' = frame_id + 1) => now' - now >= dt]_vars

=============================================================================
